---- MODULE Spec2Model ----
(***************************************************************************)
(* Model of airline_app.py: the SQLite store (tables flights and bookings, *)
(* their AUTOINCREMENT sequences), DatabaseManager's operations statement  *)
(* by statement, and the GUI handlers of AirlineApp that call them.        *)
(*                                                                         *)
(* Text is a tuple of one-character strings, so that strip(), int() and    *)
(* strptime() are computed on the characters.  Prices are whole currency   *)
(* units.  Every connection is one DatabaseManager (self.conn) on the same *)
(* database file; a statement is one step.                                 *)
(***************************************************************************)
EXTENDS Integers, Sequences, FiniteSets, TLC

\* ------------------------------------------------------------------ bounds
\* rows the bookings table may ever receive (AUTOINCREMENT never reuses ids)
MaxBookings == 2
\* rows the flights table may hold: the five seed flights and the added ones
MaxFlights == 6
\* handler calls each of the concurrent callers issues
MaxCalls == 2

\* ------------------------------------------------------------------ text
Digits == {"0", "1", "2", "3", "4", "5", "6", "7", "8", "9"}

DigitVal(ch) ==
  CASE ch = "0" -> 0 [] ch = "1" -> 1 [] ch = "2" -> 2 [] ch = "3" -> 3
    [] ch = "4" -> 4 [] ch = "5" -> 5 [] ch = "6" -> 6 [] ch = "7" -> 7
    [] ch = "8" -> 8 [] ch = "9" -> 9

\* str.strip(): leading and trailing blanks removed
RECURSIVE LStrip(_)
LStrip(s) == IF s # <<>> /\ s[1] = " " THEN LStrip(Tail(s)) ELSE s

RECURSIVE RStrip(_)
RStrip(s) ==
  IF s # <<>> /\ s[Len(s)] = " " THEN RStrip(SubSeq(s, 1, Len(s) - 1)) ELSE s

Strip(s) == RStrip(LStrip(s))

AllDigits(s) == s # <<>> /\ \A i \in 1..Len(s) : s[i] \in Digits

RECURSIVE ToNat(_)
ToNat(s) ==
  IF s = <<>> THEN 0
  ELSE 10 * ToNat(SubSeq(s, 1, Len(s) - 1)) + DigitVal(s[Len(s)])

\* int(s) raises ValueError unless s is an optional sign and decimal digits
IsInt(s) ==
  IF s # <<>> /\ s[1] \in {"+", "-"} THEN AllDigits(Tail(s)) ELSE AllDigits(s)

ToInt(s) ==
  IF s[1] = "-" THEN 0 - ToNat(Tail(s))
  ELSE IF s[1] = "+" THEN ToNat(Tail(s))
  ELSE ToNat(s)

\* positions of the separator ch in s
SepPos(s, ch) == {i \in 1..Len(s) : s[i] = ch}

IsLeap(y) == (y % 4 = 0 /\ y % 100 # 0) \/ y % 400 = 0

DaysIn(y, m) ==
  IF m = 2 THEN (IF IsLeap(y) THEN 29 ELSE 28)
  ELSE IF m \in {4, 6, 9, 11} THEN 30 ELSE 31

\* datetime.strptime(date_str, '%Y-%m-%d') does not raise
IsValidDate(s) ==
  LET p == SepPos(s, "-") IN
  /\ Cardinality(p) = 2
  /\ LET i == CHOOSE x \in p : \A z \in p : x <= z
         j == CHOOSE x \in p : \A z \in p : x >= z
         ys == SubSeq(s, 1, i - 1)
         ms == SubSeq(s, i + 1, j - 1)
         ds == SubSeq(s, j + 1, Len(s))
     IN /\ AllDigits(ys) /\ Len(ys) = 4
        /\ AllDigits(ms) /\ Len(ms) \in {1, 2}
        /\ AllDigits(ds) /\ Len(ds) \in {1, 2}
        /\ ToNat(ys) >= 1
        /\ ToNat(ms) \in 1..12
        /\ ToNat(ds) \in 1..DaysIn(ToNat(ys), ToNat(ms))

\* datetime.strptime(time_str, '%H:%M') does not raise
IsValidTime(s) ==
  LET p == SepPos(s, ":") IN
  /\ Cardinality(p) = 1
  /\ LET i == CHOOSE x \in p : TRUE
         hs == SubSeq(s, 1, i - 1)
         ms == SubSeq(s, i + 1, Len(s))
     IN /\ AllDigits(hs) /\ Len(hs) \in {1, 2}
        /\ AllDigits(ms) /\ Len(ms) \in {1, 2}
        /\ ToNat(hs) <= 23
        /\ ToNat(ms) <= 59

UpperCase ==
  << "A", "B", "C", "D", "E", "F", "G", "H", "I", "J", "K", "L", "M",
     "N", "O", "P", "Q", "R", "S", "T", "U", "V", "W", "X", "Y", "Z" >>

LowerCase ==
  << "a", "b", "c", "d", "e", "f", "g", "h", "i", "j", "k", "l", "m",
     "n", "o", "p", "q", "r", "s", "t", "u", "v", "w", "x", "y", "z" >>

LowerOf ==
  [ch \in {UpperCase[i] : i \in 1..26} |->
     LowerCase[CHOOSE i \in 1..26 : UpperCase[i] = ch]]

\* the lower case of an ASCII letter (SQLite's LIKE and float() fold it)
Fold(ch) == IF ch \in DOMAIN LowerOf THEN LowerOf[ch] ELSE ch

\* float(s) is the IEEE not-a-number: "nan" in any case, with an optional sign
IsNan(s) ==
  LET body == IF s # <<>> /\ s[1] \in {"+", "-"} THEN Tail(s) ELSE s
  IN Len(body) = 3 /\ << Fold(body[1]), Fold(body[2]), Fold(body[3]) >> = <<"n", "a", "n">>

\* float(price_str) does not raise, for the price entries used here:
\* whole-number literals, nan, and text that float() rejects
IsFloat(s) == IsInt(s) \/ IsNan(s)

ToFloat(s) == ToInt(s)

\* ------------------------------------------------------------------ store
\* dummy_flights of _add_dummy_data_if_empty
dummy_flights ==
  << [departure |-> <<"N", "e", "w", " ", "Y", "o", "r", "k">>,
      destination |-> <<"L", "o", "n", "d", "o", "n">>,
      flight_date |-> <<"2", "0", "2", "5", "-", "0", "7", "-", "0", "1">>,
      flight_time |-> <<"0", "8", ":", "0", "0">>,
      price |-> 750, seats_available |-> 150],
     [departure |-> <<"L", "o", "n", "d", "o", "n">>,
      destination |-> <<"P", "a", "r", "i", "s">>,
      flight_date |-> <<"2", "0", "2", "5", "-", "0", "7", "-", "0", "2">>,
      flight_time |-> <<"1", "0", ":", "3", "0">>,
      price |-> 200, seats_available |-> 80],
     [departure |-> <<"P", "a", "r", "i", "s">>,
      destination |-> <<"R", "o", "m", "e">>,
      flight_date |-> <<"2", "0", "2", "5", "-", "0", "7", "-", "0", "3">>,
      flight_time |-> <<"1", "4", ":", "0", "0">>,
      price |-> 150, seats_available |-> 100],
     [departure |-> <<"N", "e", "w", " ", "Y", "o", "r", "k">>,
      destination |-> <<"T", "o", "k", "y", "o">>,
      flight_date |-> <<"2", "0", "2", "5", "-", "0", "7", "-", "1", "0">>,
      flight_time |-> <<"1", "8", ":", "0", "0">>,
      price |-> 1200, seats_available |-> 200],
     [departure |-> <<"T", "o", "k", "y", "o">>,
      destination |-> <<"S", "y", "d", "n", "e", "y">>,
      flight_date |-> <<"2", "0", "2", "5", "-", "0", "7", "-", "1", "2">>,
      flight_time |-> <<"2", "2", ":", "0", "0">>,
      price |-> 900, seats_available |-> 120] >>

\* the database file after CREATE TABLE IF NOT EXISTS on a new file; the
\* seq_ fields are the sqlite_sequence rows of the AUTOINCREMENT keys
EmptyStore ==
  [flights |-> <<>>, bookings |-> <<>>, seq_flights |-> 0, seq_bookings |-> 0]

\* INSERT INTO flights (...) VALUES (...)
InsertFlightMutReplace(st, row) ==
  [st EXCEPT !.flights = (1 :> row) @@ @, !.seq_flights = @ + 1]

InsertFlight(st, row) ==
  [st EXCEPT !.flights = @ @@ ((st.seq_flights + 1) :> row),
             !.seq_flights = @ + 1]

RECURSIVE InsertMany(_, _)
InsertMany(st, rows) ==
  IF rows = <<>> THEN st ELSE InsertMany(InsertFlight(st, Head(rows)), Tail(rows))

\* _add_dummy_data_if_empty: SELECT COUNT(*) FROM flights, executemany, commit
AddDummyDataIfEmptyMutAlways(st) == InsertMany(st, dummy_flights)

AddDummyDataIfEmpty(st) ==
  IF Cardinality(DOMAIN st.flights) = 0 THEN InsertMany(st, dummy_flights) ELSE st

\* UPDATE flights SET seats_available = ? WHERE flight_id = ?
SetSeatsMutAdd(st, flight_id, seats) ==
  IF flight_id \in DOMAIN st.flights
  THEN [st EXCEPT !.flights[flight_id].seats_available = @ + seats]
  ELSE st

SetSeatsMutNoWhere(st, flight_id, seats) ==
  [st EXCEPT !.flights =
     [f \in DOMAIN @ |-> [@[f] EXCEPT !.seats_available = seats]]]

SetSeats(st, flight_id, seats) ==
  IF flight_id \in DOMAIN st.flights
  THEN [st EXCEPT !.flights[flight_id].seats_available = seats]
  ELSE st

\* UPDATE flights SET seats_available = seats_available + ? WHERE flight_id = ?
AddSeatsMutTwice(st, flight_id, num_seats) ==
  IF flight_id \in DOMAIN st.flights
  THEN [st EXCEPT !.flights[flight_id].seats_available = @ + 2 * num_seats]
  ELSE st

AddSeatsMutNoWhere(st, flight_id, num_seats) ==
  [st EXCEPT !.flights =
     [f \in DOMAIN @ |-> [@[f] EXCEPT !.seats_available = @ + num_seats]]]

AddSeats(st, flight_id, num_seats) ==
  IF flight_id \in DOMAIN st.flights
  THEN [st EXCEPT !.flights[flight_id].seats_available = @ + num_seats]
  ELSE st

\* INSERT INTO bookings (flight_id, passenger_name, num_seats, total_price)
InsertBookingMutColumns(st, row) ==
  [st EXCEPT !.bookings = @ @@ ((st.seq_bookings + 1) :>
                                  [row EXCEPT !.flight_id = row.total_price]),
             !.seq_bookings = @ + 1]

InsertBookingMutReuse(st, row) ==
  LET ids == DOMAIN st.bookings
      rowid == IF ids = {} THEN 1
               ELSE 1 + CHOOSE b \in ids : \A x \in ids : x <= b
  IN [st EXCEPT !.bookings = @ @@ (rowid :> row), !.seq_bookings = @ + 1]

InsertBooking(st, row) ==
  [st EXCEPT !.bookings = @ @@ ((st.seq_bookings + 1) :> row),
             !.seq_bookings = @ + 1]

\* SELECT last_insert_rowid() on the connection that has just run
\* InsertBooking: the booking_id AUTOINCREMENT gave the new row
LastInsertRowidMutNext(st) == st.seq_bookings + 1

LastInsertRowid(st) == st.seq_bookings

\* DELETE FROM bookings WHERE booking_id = ?
DeleteBookingMutKeep(st, booking_id) == st

DeleteBooking(st, booking_id) ==
  [st EXCEPT !.bookings = [b \in DOMAIN @ \ {booking_id} |-> @[b]]]

\* total_price = price * num_seats
TotalPriceMutSum(price, num_seats) == price + num_seats

TotalPrice(price, num_seats) == price * num_seats

\* sum of num_seats over the bookings of a store that reference flight_id
RECURSIVE SumSeats(_, _, _)
SumSeats(bk, ids, flight_id) ==
  IF ids = {} THEN 0
  ELSE LET b == CHOOSE x \in ids : TRUE IN
       (IF bk[b].flight_id = flight_id THEN bk[b].num_seats ELSE 0)
         + SumSeats(bk, ids \ {b}, flight_id)

BookedSeats(st, flight_id) == SumSeats(st.bookings, DOMAIN st.bookings, flight_id)

\* ------------------------------------------------------------------ state
VARIABLES
  db,                 \* the committed content of the database file
  lock,               \* the connection holding SQLite's RESERVED lock, or 0
  tx,                 \* per connection: <<>> or <<its uncommitted store>>
  pc,                 \* per connection: the statement it executes next
  loc,                \* per connection: the locals of the running operation
  result,             \* per connection: what the last handler reported
  last_insert_rowid,  \* per connection: SQLite's last_insert_rowid()
  pre,                \* history: db when the connection's operation began
  prev,               \* history: the booking made by the operation before it
  created,            \* history: seats_available of each flight at creation
  credited,           \* history: times a booking's seats were given back
  todo                \* per caller: handler calls still to issue, -1: no limit

vars ==
  << db, lock, tx, pc, loc, result, last_insert_rowid, pre, prev, created,
     credited, todo >>

Conns == DOMAIN pc

NoLocals ==
  [flight_id |-> 0, passenger_name |-> <<>>, num_seats |-> 0, price |-> 0,
   seats_available |-> 0, total_price |-> 0, booking_id |-> 0]

\* what a handler reported: the dialog it showed, the flight or booking id
\* the call named (id), the number the dialog carries (value), the row
\* _view_booking_gui displays or the rows search_flights returned (row), and
\* the other arguments the handler passed to the DatabaseManager (args)
NoResult ==
  [op |-> "none", success |-> FALSE, message |-> "", id |-> 0, value |-> 0,
   row |-> <<>>, args |-> <<>>]

\* no booking was made by the operation before the last one
NoPrev == [booking_id |-> 0, pre |-> EmptyStore]

Res(op, success, message, id, value) ==
  [op |-> op, success |-> success, message |-> message, id |-> id,
   value |-> value, row |-> <<>>, args |-> <<>>]

ResArgs(res, args) == [res EXCEPT !.args = args]

\* the entry fields the user may have filled in
FlightIdEntries == {<<"x">>, <<"1">>, <<"6">>, <<"9">>}

NameEntries == {<<" ">>, <<" ", "A">>}

SeatsEntries ==
  {<<"0">>, <<"-", "1">>, <<"1">>, <<"2">>, <<"2", "0", "0">>}

BookingIdEntries == {<<>>, <<"x">>, <<"1">>, <<"2">>, <<"3">>, <<"9">>}

GoodForm ==
  [departure |-> <<"O", "s", "l", "o">>, destination |-> <<"R", "o", "m", "e">>,
   date |-> <<"2", "0", "2", "5", "-", "0", "7", "-", "0", "4">>,
   time |-> <<"0", "9", ":", "1", "5">>,
   price |-> <<"5", "0">>, seats |-> <<"2">>]

AdminForms ==
  { GoodForm,
    [GoodForm EXCEPT !.departure = <<" ">>],
    [GoodForm EXCEPT !.destination = <<>>],
    [GoodForm EXCEPT !.date = <<"2", "0", "2", "5", "-", "0", "2", "-", "3", "0">>],
    [GoodForm EXCEPT !.date = <<>>],
    [GoodForm EXCEPT !.time = <<"2", "4", ":", "0", "0">>],
    [GoodForm EXCEPT !.time = <<>>],
    [GoodForm EXCEPT !.price = <<"0">>],
    [GoodForm EXCEPT !.price = <<"x">>],
    [GoodForm EXCEPT !.price = <<"N", "a", "N">>],
    [GoodForm EXCEPT !.seats = <<"0">>],
    [GoodForm EXCEPT !.seats = <<"-", "1">>],
    [GoodForm EXCEPT !.seats = <<"x">>] }

\* DatabaseManager.__init__ on a new database file: connect, init_db
InitDb == AddDummyDataIfEmpty(EmptyStore)

\* what init_db did to the database file it found
InitResult(file) ==
  Res("init", TRUE,
      IF AddDummyDataIfEmpty(file) # file THEN "Dummy flight data added." ELSE "",
      0, Cardinality(DOMAIN AddDummyDataIfEmpty(file).flights)
           - Cardinality(DOMAIN file.flights))

\* the applications cs start on the database file
InitConn(cs, file, calls) ==
  LET st == AddDummyDataIfEmpty(file) IN
  /\ db = st
  /\ lock = 0
  /\ tx = [c \in cs |-> <<>>]
  /\ pc = [c \in cs |-> "idle"]
  /\ loc = [c \in cs |-> NoLocals]
  /\ result = [c \in cs |-> InitResult(file)]
  /\ last_insert_rowid =
       [c \in cs |-> IF st # file THEN st.seq_flights ELSE 0]
  /\ pre = [c \in cs |-> file]
  /\ prev = [c \in cs |-> NoPrev]
  /\ created = [f \in DOMAIN st.flights |-> st.flights[f].seats_available]
  /\ credited = [b \in DOMAIN st.bookings |-> 0]
  /\ todo = [c \in cs |-> calls]

\* one application on a new database file
Init == InitConn({1}, EmptyStore, -1)

\* a handler begins: the history of the connection moves on
BeginCall(c, before) ==
  /\ pc[c] = "idle"
  /\ todo[c] # 0
  /\ todo' = [todo EXCEPT ![c] = IF @ > 0 THEN @ - 1 ELSE @]
  /\ pre' = [pre EXCEPT ![c] = db]
  /\ prev' = [prev EXCEPT ![c] = before]

Begin(c) == BeginCall(c, NoPrev)

\* the user presses Cancel Booking: the history keeps the booking that the
\* call before this one made, if it made one
BeginCancel(c) ==
  BeginCall(c, IF result[c].op = "book" /\ result[c].success
               THEN [booking_id |-> result[c].value, pre |-> pre[c]]
               ELSE NoPrev)

\* a handler returns without having touched the connection's transaction
Return(c, res) ==
  /\ pc' = [pc EXCEPT ![c] = "idle"]
  /\ loc' = [loc EXCEPT ![c] = NoLocals]
  /\ result' = [result EXCEPT ![c] = res]

\* self.conn.rollback()
Rollback(c) ==
  /\ tx' = [tx EXCEPT ![c] = <<>>]
  /\ lock' = IF lock = c THEN 0 ELSE lock

\* the store a statement of connection c works on, taking the RESERVED lock
\* for a write when the connection has no transaction yet
View(c) == IF tx[c] = <<>> THEN db ELSE tx[c][1]

CanWrite(c) == lock \in {0, c}

\* the user closes the application (_on_closing) and starts it again:
\* DatabaseManager.__init__ connects and runs init_db on the same file
Restart(c) ==
  /\ Begin(c)
  /\ tx[c] = <<>>
  /\ db' = AddDummyDataIfEmpty(db)
  /\ last_insert_rowid' = [last_insert_rowid EXCEPT ![c] =
       IF db' # db THEN db'.seq_flights ELSE 0]
  /\ created' = [f \in DOMAIN db'.flights |->
       IF f \in DOMAIN created THEN created[f] ELSE db'.flights[f].seats_available]
  /\ Return(c, InitResult(db))
  /\ UNCHANGED << lock, tx, credited >>

\* ------------------------------------------------------------------ flights
\* the checks of _add_flight_gui on the stripped entries; "" when all pass
AddFlightInputErrorMutNoSign(departure, destination, date, time, price_str, seats_str) ==
  IF \E e \in {departure, destination, date, time, price_str, seats_str} : e = <<>>
  THEN "All fields are required to add a flight."
  ELSE IF ~IsValidDate(date) THEN "Please enter date in YYYY-MM-DD format."
  ELSE IF ~IsValidTime(time) THEN "Please enter time in HH:MM format (24-hour)."
  ELSE IF ~IsFloat(price_str) \/ ~IsInt(seats_str)
  THEN "Price must be a valid number and Seats a valid integer."
  ELSE ""

AddFlightInputError(departure, destination, date, time, price_str, seats_str) ==
  IF \E e \in {departure, destination, date, time, price_str, seats_str} : e = <<>>
  THEN "All fields are required to add a flight."
  ELSE IF ~IsValidDate(date) THEN "Please enter date in YYYY-MM-DD format."
  ELSE IF ~IsValidTime(time) THEN "Please enter time in HH:MM format (24-hour)."
  ELSE IF ~IsFloat(price_str) \/ ~IsInt(seats_str)
  THEN "Price must be a valid number and Seats a valid integer."
  ELSE IF (~IsNan(price_str) /\ ToFloat(price_str) <= 0) \/ ToInt(seats_str) <= 0
  THEN "Price must be a valid number and Seats a valid integer."
  ELSE ""

\* DatabaseManager.add_flight (INSERT and commit); err is sqlite3.Error
\* raised by the INSERT, which add_flight answers with False; a nan price is
\* bound as NULL and fails the NOT NULL constraint of price
AddFlight(c, row, is_nan, args) ==
  \E err \in BOOLEAN :
    IF err \/ is_nan
    THEN /\ Return(c, ResArgs(Res("add", FALSE, "Failed to add flight", 0, 0),
                              args))
         /\ UNCHANGED << db, lock, tx, last_insert_rowid, created, credited >>
    ELSE LET flight_id == db.seq_flights + 1
         IN /\ Cardinality(DOMAIN db.flights) < MaxFlights
            /\ lock = 0
            /\ db' = InsertFlight(db, row)
            /\ last_insert_rowid' = [last_insert_rowid EXCEPT ![c] = flight_id]
            /\ created' = created @@ (flight_id :> row.seats_available)
            /\ Return(c, ResArgs(Res("add", TRUE,
                             "New flight added successfully!", flight_id, 0),
                             args))
            /\ UNCHANGED << lock, tx, credited >>

\* _add_flight_gui once the checks on the stripped entries have answered v
AddFlightChecked(c, args, v) ==
  IF v # ""
  THEN /\ Return(c, ResArgs(Res("add", FALSE, v, 0, 0), args))
       /\ UNCHANGED << db, lock, tx, last_insert_rowid, created, credited >>
  ELSE AddFlight(c,
         [departure |-> args[1], destination |-> args[2],
          flight_date |-> args[3], flight_time |-> args[4],
          price |-> IF IsNan(args[5]) THEN "nan" ELSE ToFloat(args[5]),
          seats_available |-> ToInt(args[6])],
         IsNan(args[5]), args)

\* _add_flight_gui on each form: the stripped entries, and what the checks
\* answer on them
AdminChecked ==
  { [args |-> << Strip(form.departure), Strip(form.destination),
                 Strip(form.date), Strip(form.time),
                 Strip(form.price), Strip(form.seats) >>,
     v |-> AddFlightInputError(Strip(form.departure), Strip(form.destination),
                               Strip(form.date), Strip(form.time),
                               Strip(form.price), Strip(form.seats))] :
      form \in AdminForms }

\* _add_flight_gui
AddFlightGui(c) ==
  /\ Begin(c)
  /\ \E e \in AdminChecked : AddFlightChecked(c, e.args, e.v)

\* ------------------------------------------------------------------ booking
\* the checks of _book_flight_gui on the stripped entries; "" when all pass
BookInputErrorMutNoSign(flight_id_str, passenger_name, num_seats_str) ==
  IF flight_id_str = <<>> \/ passenger_name = <<>> \/ num_seats_str = <<>>
  THEN "All fields are required for booking."
  ELSE IF ~IsInt(flight_id_str) \/ ~IsInt(num_seats_str)
  THEN "Flight ID and Number of Seats must be valid integers."
  ELSE ""

BookInputErrorMutZeroOnly(flight_id_str, passenger_name, num_seats_str) ==
  IF flight_id_str = <<>> \/ passenger_name = <<>> \/ num_seats_str = <<>>
  THEN "All fields are required for booking."
  ELSE IF ~IsInt(flight_id_str) \/ ~IsInt(num_seats_str)
  THEN "Flight ID and Number of Seats must be valid integers."
  ELSE IF ToInt(num_seats_str) = 0
  THEN "Flight ID and Number of Seats must be valid integers."
  ELSE ""

BookInputError(flight_id_str, passenger_name, num_seats_str) ==
  IF flight_id_str = <<>> \/ passenger_name = <<>> \/ num_seats_str = <<>>
  THEN "All fields are required for booking."
  ELSE IF ~IsInt(flight_id_str) \/ ~IsInt(num_seats_str)
  THEN "Flight ID and Number of Seats must be valid integers."
  ELSE IF ToInt(num_seats_str) <= 0
  THEN "Flight ID and Number of Seats must be valid integers."
  ELSE ""

\* the seat check of book_flight: num_seats > seats_available
NotEnoughMutOff(num_seats, seats_available) == FALSE

NotEnough(num_seats, seats_available) == num_seats > seats_available

\* the count that the "Not enough seats" message carries
SeatsLeftMutAfter(num_seats, seats_available) == seats_available - num_seats

SeatsLeft(num_seats, seats_available) == seats_available

\* bookings begun and not yet returned
Booking == {c \in Conns : pc[c] \in {"book_update", "book_insert", "book_commit"}}

\* book_flight returns False before its first write: the flight is not
\* found, or it has fewer seats than asked for
BookRefusedMutDebitFirst(c, res) ==
  /\ Return(c, res)
  /\ db' = SetSeats(db, res.id, res.value - res.args[2])
  /\ UNCHANGED << lock, tx, last_insert_rowid, created, credited >>

BookRefused(c, res) ==
  /\ Return(c, res)
  /\ UNCHANGED << db, lock, tx, last_insert_rowid, created, credited >>

\* book_flight up to its SELECT, seat check and total_price; err is
\* sqlite3.Error raised by the SELECT
BookFlight(c, flight_id, passenger_name, num_seats) ==
  \E err \in BOOLEAN :
    IF err
    THEN /\ Rollback(c)
         /\ Return(c, Res("book", FALSE, "Error booking flight", flight_id, 0))
         /\ UNCHANGED << db, last_insert_rowid, created, credited >>
    ELSE IF flight_id \notin DOMAIN View(c).flights
    THEN BookRefused(c, ResArgs(
           Res("book", FALSE, "Flight not found.", flight_id, 0),
           << passenger_name, num_seats >>))
    ELSE
      LET price == View(c).flights[flight_id].price
          seats_available == View(c).flights[flight_id].seats_available
      IN
      IF NotEnough(num_seats, seats_available)
      THEN BookRefused(c, ResArgs(
             Res("book", FALSE, "Not enough seats available.",
                 flight_id, SeatsLeft(num_seats, seats_available)),
             << passenger_name, num_seats >>))
      ELSE /\ db.seq_bookings + Cardinality(Booking) < MaxBookings
           /\ pc' = [pc EXCEPT ![c] = "book_update"]
           /\ loc' = [loc EXCEPT ![c] =
                [flight_id |-> flight_id, passenger_name |-> passenger_name,
                 num_seats |-> num_seats, price |-> price,
                 seats_available |-> seats_available,
                 total_price |-> TotalPrice(price, num_seats),
                 booking_id |-> 0]]
           /\ result' = [result EXCEPT ![c] = NoResult]
           /\ UNCHANGED << db, lock, tx, last_insert_rowid, created, credited >>

\* _book_flight_gui on the entries: the message of the check that refuses
\* them, or the arguments it calls book_flight with
BookChecked ==
  { LET v == BookInputError(Strip(fs), Strip(nm), Strip(ss)) IN
    IF v # ""
    THEN [v |-> v, flight_id |-> 0, passenger_name |-> <<>>, num_seats |-> 0]
    ELSE [v |-> "", flight_id |-> ToInt(Strip(fs)), passenger_name |-> Strip(nm),
          num_seats |-> ToInt(Strip(ss))] :
      fs \in FlightIdEntries, nm \in NameEntries, ss \in SeatsEntries }

\* _book_flight_gui
BookFlightGui(c) ==
  /\ Begin(c)
  /\ \E e \in BookChecked :
       IF e.v # ""
       THEN /\ Return(c, Res("book", FALSE, e.v, 0, 0))
            /\ UNCHANGED << db, lock, tx, last_insert_rowid, created, credited >>
       ELSE BookFlight(c, e.flight_id, e.passenger_name, e.num_seats)

\* book_flight: UPDATE flights SET seats_available = ? (the implicit BEGIN
\* takes the RESERVED lock)
BookUpdate(c) ==
  /\ pc[c] = "book_update"
  /\ CanWrite(c)
  /\ lock' = c
  /\ tx' = [tx EXCEPT ![c] =
       << SetSeats(View(c), loc[c].flight_id,
                   loc[c].seats_available - loc[c].num_seats) >>]
  /\ pc' = [pc EXCEPT ![c] = "book_insert"]
  /\ UNCHANGED << db, loc, result, last_insert_rowid, pre, prev, created,
                  credited, todo >>

\* book_flight: INSERT INTO bookings
BookInsert(c) ==
  /\ pc[c] = "book_insert"
  /\ tx' = [tx EXCEPT ![c] =
       << InsertBooking(View(c),
            [flight_id |-> loc[c].flight_id,
             passenger_name |-> loc[c].passenger_name,
             num_seats |-> loc[c].num_seats,
             total_price |-> loc[c].total_price]) >>]
  /\ last_insert_rowid' =
       [last_insert_rowid EXCEPT ![c] = LastInsertRowid(tx'[c][1])]
  /\ pc' = [pc EXCEPT ![c] = "book_commit"]
  /\ UNCHANGED << db, lock, loc, result, pre, prev, created, credited, todo >>

\* book_flight: commit and return True; _book_flight_gui then reads
\* last_insert_rowid() and shows it as the booking id
BookCommit(c) ==
  /\ pc[c] = "book_commit"
  /\ db' = tx[c][1]
  /\ tx' = [tx EXCEPT ![c] = <<>>]
  /\ lock' = 0
  /\ credited' = credited @@ (last_insert_rowid[c] :> 0)
  /\ Return(c, ResArgs(Res("book", TRUE, "Flight booked successfully!",
                           loc[c].flight_id, last_insert_rowid[c]),
                       << loc[c].passenger_name, loc[c].num_seats >>))
  /\ UNCHANGED << last_insert_rowid, pre, prev, created, todo >>

\* book_flight: the statement about to run raises sqlite3.Error (a storage
\* failure, or "database is locked" while another connection writes); the
\* handler rolls back and returns False
BookErrorMutNoRollback(c) ==
  /\ pc[c] \in {"book_update", "book_insert", "book_commit"}
  /\ db' = View(c)
  /\ Rollback(c)
  /\ Return(c, Res("book", FALSE, "Error booking flight", loc[c].flight_id, 0))
  /\ UNCHANGED << last_insert_rowid, pre, prev, created, credited, todo >>

BookError(c) ==
  /\ pc[c] \in {"book_update", "book_insert", "book_commit"}
  /\ Rollback(c)
  /\ Return(c, Res("book", FALSE, "Error booking flight", loc[c].flight_id, 0))
  /\ UNCHANGED << db, last_insert_rowid, pre, prev, created, credited, todo >>

\* ------------------------------------------------------------------ cancel
\* the checks of _cancel_booking_gui and _view_booking_gui on the entry
BookingIdInputError(booking_id_str) ==
  IF booking_id_str = <<>> THEN "Please enter a Booking ID."
  ELSE IF ~IsInt(booking_id_str) THEN "Booking ID must be an integer."
  ELSE ""

\* _cancel_booking_gui up to cancel_booking's SELECT; confirm is the answer
\* to askyesno, err is sqlite3.Error raised by the SELECT
CancelBookingGui(c) ==
  /\ BeginCancel(c)
  /\ \E bs \in BookingIdEntries :
       LET booking_id_str == Strip(bs)
           v == BookingIdInputError(booking_id_str)
       IN
       IF v # ""
       THEN /\ Return(c, Res("cancel", FALSE, v, 0, 0))
            /\ UNCHANGED << db, lock, tx, last_insert_rowid, created, credited >>
       ELSE \E confirm \in BOOLEAN, err \in BOOLEAN :
       IF ~confirm
       THEN /\ Return(c, Res("cancel", FALSE, "", 0, 0))
            /\ UNCHANGED << db, lock, tx, last_insert_rowid, created, credited >>
       ELSE
         LET booking_id == ToInt(booking_id_str)
             st == View(c)
         IN
         IF err
         THEN /\ Rollback(c)
              /\ Return(c, Res("cancel", FALSE, "Error cancelling booking",
                               booking_id, 0))
              /\ UNCHANGED << db, last_insert_rowid, created, credited >>
         ELSE IF booking_id \notin DOMAIN st.bookings
         THEN /\ Return(c, Res("cancel", FALSE, "Booking not found.", booking_id, 0))
              /\ UNCHANGED << db, lock, tx, last_insert_rowid, created, credited >>
         ELSE /\ pc' = [pc EXCEPT ![c] = "cancel_update"]
              /\ loc' = [loc EXCEPT ![c] =
                   [NoLocals EXCEPT !.flight_id = st.bookings[booking_id].flight_id,
                                    !.num_seats = st.bookings[booking_id].num_seats,
                                    !.booking_id = booking_id]]
              /\ result' = [result EXCEPT ![c] = NoResult]
              /\ UNCHANGED << db, lock, tx, last_insert_rowid, created, credited >>

\* cancel_booking: UPDATE flights SET seats_available = seats_available + ?
CancelUpdate(c) ==
  /\ pc[c] = "cancel_update"
  /\ CanWrite(c)
  /\ lock' = c
  /\ tx' = [tx EXCEPT ![c] =
       << AddSeats(View(c), loc[c].flight_id, loc[c].num_seats) >>]
  /\ pc' = [pc EXCEPT ![c] = "cancel_delete"]
  /\ UNCHANGED << db, loc, result, last_insert_rowid, pre, prev, created,
                  credited, todo >>

\* cancel_booking: DELETE FROM bookings WHERE booking_id = ?
CancelDelete(c) ==
  /\ pc[c] = "cancel_delete"
  /\ tx' = [tx EXCEPT ![c] = << DeleteBooking(View(c), loc[c].booking_id) >>]
  /\ pc' = [pc EXCEPT ![c] = "cancel_commit"]
  /\ UNCHANGED << db, lock, loc, result, last_insert_rowid, pre, prev, created,
                  credited, todo >>

\* cancel_booking: commit and return True
CancelCommit(c) ==
  /\ pc[c] = "cancel_commit"
  /\ db' = tx[c][1]
  /\ tx' = [tx EXCEPT ![c] = <<>>]
  /\ lock' = 0
  /\ credited' =
       IF loc[c].flight_id \in DOMAIN db.flights
       THEN [credited EXCEPT ![loc[c].booking_id] = @ + 1]
       ELSE credited
  /\ Return(c, Res("cancel", TRUE, "Booking cancelled successfully!",
                   loc[c].booking_id, 0))
  /\ UNCHANGED << last_insert_rowid, pre, prev, created, todo >>

\* cancel_booking: the statement about to run raises sqlite3.Error; the
\* handler rolls back and returns False
CancelError(c) ==
  /\ pc[c] \in {"cancel_update", "cancel_delete", "cancel_commit"}
  /\ Rollback(c)
  /\ Return(c, Res("cancel", FALSE, "Error cancelling booking",
                   loc[c].booking_id, 0))
  /\ UNCHANGED << db, last_insert_rowid, pre, prev, created, credited, todo >>

\* ------------------------------------------------------------------ view
\* get_booking: bookings b JOIN flights f ON b.flight_id = f.flight_id
GetBooking(st, booking_id) ==
  IF booking_id \in DOMAIN st.bookings
     /\ st.bookings[booking_id].flight_id \in DOMAIN st.flights
  THEN LET b == st.bookings[booking_id]
           f == st.flights[b.flight_id]
       IN << [booking_id |-> booking_id, departure |-> f.departure,
              destination |-> f.destination, flight_date |-> f.flight_date,
              flight_time |-> f.flight_time,
              passenger_name |-> b.passenger_name, num_seats |-> b.num_seats,
              total_price |-> b.total_price, price_per_seat |-> f.price] >>
  ELSE <<>>

\* _view_booking_gui
ViewBookingGui(c) ==
  /\ Begin(c)
  /\ \E bs \in BookingIdEntries :
       LET booking_id_str == Strip(bs)
           v == BookingIdInputError(booking_id_str)
       IN
       IF v # ""
       THEN Return(c, Res("view", FALSE, v, 0, 0))
       ELSE LET booking_id == ToInt(booking_id_str)
                booking_info == GetBooking(View(c), booking_id)
            IN IF booking_info = <<>>
               THEN Return(c, Res("view", FALSE, "Booking not found.", booking_id, 0))
               ELSE Return(c, [Res("view", TRUE, "Booking Details", booking_id, 0)
                                 EXCEPT !.row = booking_info])
  /\ UNCHANGED << db, lock, tx, last_insert_rowid, created, credited >>

\* ------------------------------------------------------------------ search
\* text LIKE pattern: % matches any run of characters, _ any one character
RECURSIVE Like(_, _)
Like(text, pattern) ==
  IF pattern = <<>> THEN text = <<>>
  ELSE IF pattern[1] = "%"
  THEN Like(text, Tail(pattern)) \/ (text # <<>> /\ Like(Tail(text), pattern))
  ELSE IF text = <<>> THEN FALSE
  ELSE /\ pattern[1] = "_" \/ Fold(pattern[1]) = Fold(text[1])
       /\ Like(Tail(text), Tail(pattern))

\* the WHERE clause search_flights builds for one row
Matches(row, departure, destination, date) ==
  /\ departure # <<>> => Like(row.departure, <<"%">> \o departure \o <<"%">>)
  /\ destination # <<>> => Like(row.destination, <<"%">> \o destination \o <<"%">>)
  /\ date # <<>> => row.flight_date = date

\* search_flights: the ids of the rows fetchall() returns, in rowid order
RECURSIVE SearchFrom(_, _, _, _, _)
SearchFrom(st, flight_id, departure, destination, date) ==
  IF flight_id > st.seq_flights THEN <<>>
  ELSE (IF flight_id \in DOMAIN st.flights
           /\ Matches(st.flights[flight_id], departure, destination, date)
        THEN << flight_id >> ELSE <<>>)
       \o SearchFrom(st, flight_id + 1, departure, destination, date)

SearchFlights(st, departure, destination, date) ==
  SearchFrom(st, 1, departure, destination, date)

\* the search entries the user may have filled in
SearchEntries ==
  { [departure |-> <<>>, destination |-> <<>>, date |-> <<>>],
    [departure |-> <<"n", "e", "w">>, destination |-> <<>>, date |-> <<>>],
    [departure |-> <<" ">>, destination |-> <<"O", "_", "E">>, date |-> <<>>],
    [departure |-> <<>>, destination |-> <<>>,
     date |-> <<"2", "0", "2", "5", "-", "0", "7", "-", "0", "1">>],
    [departure |-> <<"o">>, destination |-> <<"o">>,
     date |-> <<"2", "0", "2", "5", "-", "7", "-", "1">>],
    [departure |-> <<>>, destination |-> <<>>, date |-> <<"x">>] }

\* _search_flights_gui after search_flights has returned; the rows go to the
\* flights_tree widget, which is display only and no part of the state
SearchShow(c, flights, args) ==
  IF flights = <<>>
  THEN Return(c, ResArgs(Res("search", TRUE,
         "No flights found matching your criteria.", 0, 0), args))
  ELSE Return(c, ResArgs([Res("search", TRUE, "", 0, Len(flights))
                            EXCEPT !.row = flights], args))

\* _search_flights_gui on each entry: the stripped filters, and whether the
\* date passes the check
SearchChecked ==
  { [departure |-> Strip(e.departure), destination |-> Strip(e.destination),
     date |-> Strip(e.date),
     date_ok |-> Strip(e.date) = <<>> \/ IsValidDate(Strip(e.date))] :
      e \in SearchEntries }

\* _search_flights_gui on the stripped entries; err is sqlite3.Error raised
\* by the SELECT, which search_flights reports before it returns no rows
SearchWith(c, departure, destination, date, date_ok) ==
  IF ~date_ok
  THEN Return(c, Res("search", FALSE,
                     "Please enter date in YYYY-MM-DD format.", 0, 0))
  ELSE \E err \in BOOLEAN :
       IF err
       THEN Return(c, ResArgs(Res("search", FALSE, "Failed to search flights",
                                  0, 0), << departure, destination, date >>))
       ELSE SearchShow(c, SearchFlights(View(c), departure, destination, date),
                       << departure, destination, date >>)

SearchFlightsGui(c) ==
  /\ Begin(c)
  /\ \E e \in SearchChecked :
       SearchWith(c, e.departure, e.destination, e.date, e.date_ok)
  /\ UNCHANGED << db, lock, tx, last_insert_rowid, created, credited >>

\* ------------------------------------------------------------------ specifications
Next ==
  \E c \in Conns :
    \/ AddFlightGui(c)
    \/ BookFlightGui(c)
    \/ BookUpdate(c)
    \/ BookInsert(c)
    \/ BookCommit(c)
    \/ BookError(c)
    \/ CancelBookingGui(c)
    \/ CancelUpdate(c)
    \/ CancelDelete(c)
    \/ CancelCommit(c)
    \/ CancelError(c)
    \/ ViewBookingGui(c)
    \/ SearchFlightsGui(c)
    \/ Restart(c)

\* one caller: the application as the repository runs it
Spec == Init /\ [][Next]_vars

\* the store after the first application added the flight of GoodForm
ConcDb == InsertFlight(InitDb,
            [departure |-> Strip(GoodForm.departure),
             destination |-> Strip(GoodForm.destination),
             flight_date |-> Strip(GoodForm.date),
             flight_time |-> Strip(GoodForm.time),
             price |-> ToFloat(Strip(GoodForm.price)),
             seats_available |-> ToInt(Strip(GoodForm.seats))])

\* two applications, each with its own connection to the same database file
InitConc == InitConn({1, 2}, ConcDb, MaxCalls)

NextConc ==
  \E c \in Conns :
    \/ BookFlightGui(c)
    \/ BookUpdate(c)
    \/ BookInsert(c)
    \/ BookCommit(c)
    \/ BookError(c)
    \/ CancelBookingGui(c)
    \/ CancelUpdate(c)
    \/ CancelDelete(c)
    \/ CancelCommit(c)
    \/ CancelError(c)

\* concurrent Book and Cancel calls on the flights that exist
SpecConc == InitConc /\ [][NextConc]_vars

\* ------------------------------------------------------------------ properties
\* a database file in which booking 1 names flight 6, and the flights table
\* has lost that row: the schema declares the foreign key, but the connection
\* never turns foreign_keys on, so SQLite does not enforce it and a file
\* edited with another tool opens as it is
OrphanDb ==
  [InsertFlight(InitDb, dummy_flights[1]) EXCEPT
     !.flights = [f \in 1..5 |-> @[f]],
     !.bookings = (1 :> [flight_id |-> 6, passenger_name |-> <<"A">>,
                         num_seats |-> 2, total_price |-> 1500]),
     !.seq_bookings = 1]

InitOrphan == InitConn({1}, OrphanDb, -1)

SpecOrphan == InitOrphan /\ [][Next]_vars

BookOk(c) == pc[c] = "idle" /\ result[c].op = "book" /\ result[c].success

CancelOk(c) == pc[c] = "idle" /\ result[c].op = "cancel" /\ result[c].success

BookFailed(c) == pc[c] = "idle" /\ result[c].op = "book" /\ ~result[c].success

CancelFailed(c) ==
  pc[c] = "idle" /\ result[c].op = "cancel" /\ ~result[c].success

\* C1 (seat conservation): for one caller, in every reachable state the
\* seats_available of each flight plus the num_seats of the bookings that
\* exist for it equals the seats_available the flight was created with.
SeatConservation ==
  \A f \in DOMAIN db.flights :
    db.flights[f].seats_available + BookedSeats(db, f) = created[f]

\* a booking was cancelled while another booking of the same flight remains
SeatConservationWitness ==
  \E c \in Conns :
    /\ CancelOk(c)
    /\ \E b \in DOMAIN db.bookings :
         /\ db.bookings[b].flight_id = 6
         /\ db.flights[6].seats_available = 1
         /\ created[6] = 2

\* C2 (no oversell): a Book that succeeded asked for no more seats than the
\* flight had when the call began, and no flight's seats_available is ever
\* negative, whatever AddFlight, Book and Cancel calls were made.
NoOversell ==
  /\ \A f \in DOMAIN db.flights : db.flights[f].seats_available >= 0
  /\ \A c \in Conns :
       BookOk(c) =>
         db.bookings[result[c].value].num_seats
           <= pre[c].flights[result[c].id].seats_available

\* a Book took the last seats of a flight
NoOversellWitness ==
  \E c \in Conns :
    /\ BookOk(c)
    /\ db.flights[result[c].id].seats_available = 0
    /\ db.bookings[result[c].value].num_seats = 2

\* C3 (concurrent Book calls): as long as no Cancel has given seats back, the
\* bookings that Book calls on two connections created for a flight never
\* hold more seats than the flight had.
ConcurrentBooksNeverOversell ==
  (\A b \in DOMAIN credited : credited[b] = 0) =>
    \A f \in DOMAIN db.flights : BookedSeats(db, f) <= created[f]

\* C4 (serializable Book and Cancel): once every concurrent call has
\* returned, seats_available plus the seats of the existing bookings equals
\* the seats at creation, as after some serial order of the calls.
ConservedAfterConcurrentCalls ==
  (\A c \in Conns : pc[c] = "idle") =>
    \A f \in DOMAIN db.flights :
      db.flights[f].seats_available + BookedSeats(db, f) = created[f]

\* C5 (all or nothing): after a Book or a Cancel that failed, the store is
\* exactly the store before the call and the connection holds neither an
\* uncommitted change nor the write lock; and the committed store never
\* holds a booking without its seat debit or a debit without its booking.
AllOrNothing ==
  /\ \A c \in Conns :
       BookFailed(c) \/ CancelFailed(c) =>
         db = pre[c] /\ tx[c] = <<>> /\ lock # c
  /\ \A f \in DOMAIN db.flights :
       created[f] - db.flights[f].seats_available = BookedSeats(db, f)

\* a Book failed after its booking row was inserted: the row id was handed
\* out to the connection and the sequence is back where it was
AllOrNothingWitness ==
  \E c \in Conns :
    /\ BookFailed(c)
    /\ result[c].message = "Error booking flight"
    /\ last_insert_rowid[c] = db.seq_bookings + 1
    /\ last_insert_rowid[c] \notin DOMAIN db.bookings

\* C6 (round trip): a Cancel that directly follows the Book which created
\* the booking leaves every flight's seats_available and the set of bookings
\* as they were before that Book.
RoundTrip ==
  \A c \in Conns :
    CancelOk(c) /\ prev[c].booking_id = result[c].id =>
      /\ \A f \in DOMAIN db.flights :
           /\ f \in DOMAIN prev[c].pre.flights
           /\ db.flights[f] = prev[c].pre.flights[f]
      /\ DOMAIN db.bookings = DOMAIN prev[c].pre.bookings
      /\ \A b \in DOMAIN db.bookings : db.bookings[b] = prev[c].pre.bookings[b]

\* a Book of two seats was cancelled straight away while an older booking exists
RoundTripWitness ==
  \E c \in Conns :
    /\ CancelOk(c)
    /\ prev[c].booking_id = result[c].id
    /\ DOMAIN db.bookings # {}
    /\ result[c].id = 2

\* C7 (cancel once): a Cancel of an id that has no booking answers "Booking
\* not found." (unless the SELECT itself raised a storage error) and leaves
\* the store as it was, a Cancel succeeds only for a booking that existed,
\* and no booking's seats are given back twice.
CancelOnce ==
  /\ \A c \in Conns :
       /\ CancelOk(c) => result[c].id \in DOMAIN pre[c].bookings
       /\ CancelFailed(c) /\ result[c].message = "Booking not found." =>
            db = pre[c] /\ result[c].id \notin DOMAIN db.bookings
       /\ CancelFailed(c) /\ result[c].id # 0
            /\ result[c].id \notin DOMAIN pre[c].bookings
            /\ result[c].message # "Error cancelling booking" =>
            result[c].message = "Booking not found."
  /\ \A b \in DOMAIN credited : credited[b] <= 1

\* the Cancel of a booking that was cancelled before was refused
CancelOnceWitness ==
  \E c \in Conns :
    /\ CancelFailed(c)
    /\ result[c].message = "Booking not found."
    /\ result[c].id \in DOMAIN credited
    /\ credited[result[c].id] = 1

\* C8 (insufficient seats): the "Not enough seats" failure carries exactly
\* the flight's seats_available, and the flight's seats are unchanged.
NotEnoughCarriesSeatsLeft ==
  \A c \in Conns :
    BookFailed(c) /\ result[c].message = "Not enough seats available." =>
      /\ result[c].value = db.flights[result[c].id].seats_available
      /\ db.flights = pre[c].flights

\* Book of 200 seats on the New York - London flight of 150 seats, and a
\* refusal on a flight that a booking has already taken a seat of
NotEnoughWitness ==
  \E c \in Conns :
    /\ BookFailed(c)
    /\ result[c].message = "Not enough seats available."
    /\ \/ result[c].id = 1 /\ result[c].value = 150
       \/ result[c].id = 6 /\ result[c].value = 1 /\ created[6] = 2

\* C9 (validation): a Book that is refused by the input checks leaves the
\* store as it was, and every booking row, committed or not, has
\* num_seats > 0 and a passenger name that is not empty.
BookValidated ==
  /\ \A c \in Conns :
       /\ BookFailed(c)
            /\ result[c].message \in
                 {"All fields are required for booking.",
                  "Flight ID and Number of Seats must be valid integers."} =>
            db = pre[c] /\ tx[c] = <<>>
       /\ \A b \in DOMAIN View(c).bookings :
            /\ View(c).bookings[b].num_seats > 0
            /\ View(c).bookings[b].passenger_name # <<>>
  /\ \A b \in DOMAIN db.bookings :
       db.bookings[b].num_seats > 0 /\ db.bookings[b].passenger_name # <<>>

\* an input check refused a Book while a booking exists
BookValidatedWitness ==
  \E c \in Conns :
    /\ BookFailed(c)
    /\ result[c].message = "Flight ID and Number of Seats must be valid integers."
    /\ DOMAIN db.bookings # {}

\* C10 (price snapshot): a booking row enters the store with total_price =
\* price of its flight * num_seats, and no step changes the total_price of a
\* booking that exists.
PriceSnapshot ==
  [][\A b \in DOMAIN db'.bookings :
       IF b \in DOMAIN db.bookings
       THEN db'.bookings[b].total_price = db.bookings[b].total_price
       ELSE db'.bookings[b].total_price =
              db.flights[db'.bookings[b].flight_id].price
                * db'.bookings[b].num_seats]_vars

\* two seats at 750 were booked for 1500, and a flight was added afterwards
PriceSnapshotWitness ==
  \E c \in Conns :
    /\ pc[c] = "idle" /\ result[c].op = "add" /\ result[c].success
    /\ \E b \in DOMAIN db.bookings :
         /\ db.bookings[b].flight_id = 1
         /\ db.bookings[b].num_seats = 2
         /\ db.bookings[b].total_price = 1500

\* C11 (referential integrity): every booking row, committed or in an open
\* transaction, names a flight that exists, so the UPDATE of cancel_booking
\* always finds the flight row of the booking it is cancelling.
ReferentialIntegrity ==
  /\ \A b \in DOMAIN db.bookings : db.bookings[b].flight_id \in DOMAIN db.flights
  /\ \A c \in Conns :
       /\ \A b \in DOMAIN View(c).bookings :
            View(c).bookings[b].flight_id \in DOMAIN View(c).flights
       /\ pc[c] = "cancel_update" => loc[c].flight_id \in DOMAIN View(c).flights

\* a Cancel is about to credit the flight of a booking made on the flight
\* that AddFlight created
ReferentialIntegrityWitness ==
  \E c \in Conns :
    /\ pc[c] = "cancel_update"
    /\ loc[c].flight_id = 6
    /\ loc[c].booking_id \in DOMAIN db.bookings

\* C12 (orphaned booking): the Cancel of a booking whose flight row is
\* missing fails only on a storage error; when it succeeds the booking is
\* deleted, the other bookings are as they were, and no flight is changed.
OrphanCancellable ==
  \A c \in Conns :
    result[c].op = "cancel" /\ pc[c] = "idle"
      /\ result[c].id \in DOMAIN pre[c].bookings
      /\ pre[c].bookings[result[c].id].flight_id \notin DOMAIN pre[c].flights =>
      IF result[c].success
      THEN /\ db.flights = pre[c].flights
           /\ DOMAIN db.bookings = DOMAIN pre[c].bookings \ {result[c].id}
           /\ \A b \in DOMAIN db.bookings : db.bookings[b] = pre[c].bookings[b]
      ELSE result[c].message = "Error cancelling booking" /\ db = pre[c]

\* the orphaned booking was cancelled while a booking of an existing flight
\* stays
OrphanCancellableWitness ==
  \E c \in Conns :
    /\ CancelOk(c)
    /\ result[c].id = 1
    /\ pre[c].bookings[1].flight_id \notin DOMAIN pre[c].flights
    /\ 1 \notin DOMAIN db.bookings
    /\ 2 \in DOMAIN db.bookings

\* sub occurs in text when the case of ASCII letters is ignored
Contains(text, sub) ==
  \E i \in 0..(Len(text) - Len(sub)) :
    \A j \in 1..Len(sub) : Fold(text[i + j]) = Fold(sub[j])

\* C13 (search): a search returns exactly the flights whose departure and
\* destination contain the filters given, case ignored, and whose date
\* equals the date given; an empty filter constrains nothing.
SearchExact ==
  \A c \in Conns :
    pc[c] = "idle" /\ result[c].op = "search" /\ result[c].success =>
      LET departure == result[c].args[1]
          destination == result[c].args[2]
          date == result[c].args[3]
      IN { result[c].row[i] : i \in DOMAIN result[c].row } =
           { f \in DOMAIN db.flights :
               /\ departure # <<>> => Contains(db.flights[f].departure, departure)
               /\ destination # <<>> =>
                    Contains(db.flights[f].destination, destination)
               /\ date # <<>> => db.flights[f].flight_date = date }

\* the conditions under which the claim has AddFlight refuse the entries
InvalidFlight(args) ==
  \/ \E i \in 1..4 : args[i] = <<>>
  \/ ~IsValidDate(args[3])
  \/ ~IsValidTime(args[4])
  \/ ~IsFloat(args[5])
  \/ ~IsInt(args[6])
  \/ ~IsNan(args[5]) /\ ToFloat(args[5]) <= 0
  \/ ToInt(args[6]) <= 0

SeedOnlyWhenEmpty ==
  \A c \in Conns :
    pc[c] = "idle" /\ result[c].op = "init" =>
      IF DOMAIN pre[c].flights = {}
      THEN /\ DOMAIN db.flights = 1..5
           /\ \A f \in 1..5 : db.flights[f] = dummy_flights[f]
           /\ db.bookings = pre[c].bookings
           /\ result[c].value = 5
      ELSE db = pre[c] /\ result[c].value = 0

\* the application was started again after two seats of flight 1 were booked
SeedOnlyWhenEmptyWitness ==
  \E c \in Conns :
    /\ pc[c] = "idle" /\ result[c].op = "init"
    /\ DOMAIN pre[c].flights # {}
    /\ db.flights[1].seats_available = 148
    /\ DOMAIN db.bookings # {}

\* C16 (Book returns the new id): the booking id shown after a successful
\* Book is the id of a booking that exists, did not exist before the call,
\* and has the flight, passenger name and number of seats asked for.
BookReturnsNewId ==
  \A c \in Conns :
    BookOk(c) =>
      LET b == result[c].value IN
      /\ b \in DOMAIN db.bookings
      /\ b \notin DOMAIN pre[c].bookings
      /\ db.bookings[b].flight_id = result[c].id
      /\ db.bookings[b].passenger_name = result[c].args[1]
      /\ db.bookings[b].num_seats = result[c].args[2]

\* the second Book returned id 2 after booking 1 had been cancelled
BookReturnsNewIdWitness ==
  \E c \in Conns :
    /\ BookOk(c)
    /\ result[c].value = 2
    /\ DOMAIN db.bookings = {2}
    /\ db.bookings[2].passenger_name = <<"A">>

\* C17 (concurrent Cancels): the seats of a booking are given back at most
\* once, and two Cancel calls on two connections never both succeed for the
\* same booking id.
ConcurrentCancelsCreditOnce ==
  /\ \A b \in DOMAIN credited : credited[b] <= 1
  /\ \A c1 \in Conns, c2 \in Conns :
       c1 # c2 /\ CancelOk(c1) /\ CancelOk(c2) => result[c1].id # result[c2].id

\* C18 (a cancelled booking stays gone): once a Cancel of booking b has
\* succeeded, no store holds a booking b again, committed or not, and every
\* later view of b answers "Booking not found." and every later Cancel of b
\* fails, with "Booking not found." unless its SELECT raised a storage error.
CancelledStaysGone ==
  \A b \in DOMAIN credited :
    credited[b] > 0 =>
      /\ b \notin DOMAIN db.bookings
      /\ GetBooking(db, b) = <<>>
      /\ b <= db.seq_bookings
      /\ \A c \in Conns :
           /\ b \notin DOMAIN View(c).bookings
           /\ pc[c] = "idle" /\ result[c].op = "view" /\ result[c].id = b =>
                ~result[c].success /\ result[c].message = "Booking not found."
           /\ pc[c] = "idle" /\ result[c].op = "cancel" /\ result[c].id = b
                /\ b \notin DOMAIN pre[c].bookings =>
                /\ ~result[c].success
                /\ result[c].message \in
                     {"Booking not found.", "Error cancelling booking"}

\* booking 1 was cancelled, a later Book got id 2, and a view of 1 after it
\* found nothing
CancelledStaysGoneWitness ==
  \E c \in Conns :
    /\ pc[c] = "idle" /\ result[c].op = "view" /\ result[c].id = 1
    /\ 1 \in DOMAIN credited /\ credited[1] = 1
    /\ 2 \in DOMAIN db.bookings

\* C19 (failing Book): a Book that fails with "Flight not found." or "Not
\* enough seats available." leaves every flight and every booking as they
\* were before the call, with nothing uncommitted on the connection.
BookRefusedNoChange ==
  \A c \in Conns :
    BookFailed(c)
      /\ result[c].message \in {"Flight not found.", "Not enough seats available."} =>
      /\ db.flights = pre[c].flights
      /\ db.bookings = pre[c].bookings
      /\ tx[c] = <<>>

\* Book of two seats on flight 6 was refused when one seat was left, and
\* Book on flight 9, which does not exist, while a booking exists
BookRefusedNoChangeWitness ==
  \E c \in Conns :
    /\ BookFailed(c)
    /\ DOMAIN db.bookings # {}
    /\ \/ /\ result[c].message = "Not enough seats available."
          /\ result[c].id = 6 /\ result[c].args[2] = 2
       \/ result[c].message = "Flight not found." /\ result[c].id = 9

\* C20 (frame of Search, GetBooking and AddFlight): after a search, a view
\* or an add, every flight that existed before the call is as it was and
\* the bookings are as they were; a successful add has added exactly one
\* flight, under an id no flight had, and nothing else adds a flight.
ReadOnlyCalls ==
  \A c \in Conns :
    pc[c] = "idle" /\ result[c].op \in {"search", "view", "add"} =>
      /\ db.bookings = pre[c].bookings
      /\ \A f \in DOMAIN pre[c].flights :
           f \in DOMAIN db.flights /\ db.flights[f] = pre[c].flights[f]
      /\ IF result[c].op = "add" /\ result[c].success
         THEN /\ result[c].id \notin DOMAIN pre[c].flights
              /\ DOMAIN db.flights = DOMAIN pre[c].flights \cup {result[c].id}
         ELSE DOMAIN db.flights = DOMAIN pre[c].flights

\* a flight was added while a booking holds seats of flight 1
ReadOnlyCallsWitness ==
  \E c \in Conns :
    /\ pc[c] = "idle" /\ result[c].op = "add" /\ result[c].success
    /\ result[c].id = 6
    /\ db.flights[1].seats_available = 149
    /\ \E b \in DOMAIN db.bookings : db.bookings[b].flight_id = 1

\* the flight a Book or a Cancel of connection c is about: the flight_id
\* passed to book_flight, or the flight of the booking passed to
\* cancel_booking; 0 when the call named no flight or no existing booking
FlightOf(c) ==
  IF pc[c] # "idle" THEN loc[c].flight_id
  ELSE IF result[c].op = "book" THEN result[c].id
  ELSE IF result[c].op = "cancel" /\ result[c].id \in DOMAIN pre[c].bookings
  THEN pre[c].bookings[result[c].id].flight_id
  ELSE 0

\* store st differs from store old only in flight f and in bookings of f
OnlyFlightChanged(old, st, f) ==
  /\ DOMAIN st.flights = DOMAIN old.flights
  /\ \A g \in DOMAIN old.flights : g # f => st.flights[g] = old.flights[g]
  /\ \A b \in DOMAIN old.bookings :
       old.bookings[b].flight_id # f =>
         b \in DOMAIN st.bookings /\ st.bookings[b] = old.bookings[b]
  /\ \A b \in DOMAIN st.bookings :
       b \notin DOMAIN old.bookings => st.bookings[b].flight_id = f

\* C21 (flights are independent): while a Book or a Cancel about flight f
\* runs and after it has returned, with success or not, the committed store
\* and the connection's uncommitted store differ from the store before the
\* call in nothing but flight f and the bookings of flight f.
FlightsIndependent ==
  \A c \in Conns :
    pc[c] # "idle" \/ result[c].op \in {"book", "cancel"} =>
      /\ OnlyFlightChanged(pre[c], db, FlightOf(c))
      /\ OnlyFlightChanged(pre[c], View(c), FlightOf(c))

\* a booking of flight 6 was cancelled while flight 1 has a booking and
\* seats taken
FlightsIndependentWitness ==
  \E c \in Conns :
    /\ CancelOk(c)
    /\ FlightOf(c) = 6
    /\ db.flights[1].seats_available = 148
    /\ \E b \in DOMAIN db.bookings : db.bookings[b].flight_id = 1

\* C22 (seats never exceed the capacity): for one caller, in every store,
\* committed or not, the seats_available of each flight is at most the
\* seats_available the flight was created with.
SeatsWithinCapacity ==
  /\ \A f \in DOMAIN db.flights : db.flights[f].seats_available <= created[f]
  /\ \A c \in Conns :
       \A f \in DOMAIN View(c).flights :
         View(c).flights[f].seats_available <= created[f]

\* a Cancel gave the seats of a booking back and the flight is full again,
\* while another flight still has seats booked
SeatsWithinCapacityWitness ==
  \E c \in Conns :
    /\ CancelOk(c)
    /\ credited[result[c].id] = 1
    /\ 6 \in DOMAIN db.flights
    /\ db.flights[6].seats_available = created[6]
    /\ db.flights[1].seats_available < created[1]

====
